---- MODULE Spec2Model ----
(***************************************************************************)
(* Model of run_pipeline.py: the sequential runner of the exoplanet        *)
(* detection pipeline.  main() bootstraps directories, loads               *)
(* copy_of_ada.py, slices the Data Scraping section out of it by two       *)
(* markers, executes it through run_phase, evaluates the EDA gate on the   *)
(* filesystem and writes pipeline_results.json.                            *)
(*                                                                         *)
(* Text is a sequence of one-character strings.  The two marker strings    *)
(* of main() are abstracted to short sequences that, like the originals,   *)
(* share no character and cannot overlap each other.                       *)
(*                                                                         *)
(* pc is main's position (run_phase's while it is on the stack); raised is *)
(* the exception propagating out of main, "none" while the run is alive.   *)
(* A raised exception leaves pc where it was raised.                       *)
(*                                                                         *)
(* The phase body is opaque: it ends normally, raises an Exception, or     *)
(* raises SystemExit/KeyboardInterrupt, and in each case may first have    *)
(* rewritten the *.csv files of data/raw.  The empty body does nothing.    *)
(* Opening the error log may fail; writing pipeline_results.json does not. *)
(*                                                                         *)
(* startFiles (data/raw at startup) and logsAtCall (logs/ when run_phase   *)
(* was entered) are history variables; nWrites counts the writes of        *)
(* pipeline_results.json by this run.                                      *)
(***************************************************************************)
EXTENDS Integers, Sequences, FiniteSets, TLC

VARIABLES pc, raised, source, full_code, scraper_section, rawFiles, startFiles,
          logs, logsAtCall, calls, exc, ret, results, pipeline_results, nWrites,
          clock, stdout

vars == <<pc, raised, source, full_code, scraper_section, rawFiles, startFiles,
          logs, logsAtCall, calls, exc, ret, results, pipeline_results, nWrites,
          clock, stdout>>

\* Longest source text explored.
MaxLen == 5

Alphabet == {"c", ":", "#", "x"}

\* 'class NASAExoplanetScraper:'
StartMarker == <<"c", ":">>

\* '# ====...====\n# EXOPLANET HUNTER AI - EXPLORATORY'
EndMarker == <<"#">>

Texts == UNION {[1..n -> Alphabet] : n \in 0..MaxLen}

\* "Data Scraping", the phase name main passes to run_phase.
DataScraping == <<"D", "a", "t", "a", " ", "S", "c", "r", "a", "p", "i", "n", "g">>

Kepler == "kepler_cumulative.csv"

\* The *.csv files that may lie in data/raw.
CsvFiles == {Kepler, "other.csv"}

----------------------------------------------------------------------------
(* Python built-ins used by the runner.                                    *)

SetMin(S) == CHOOSE x \in S : \A y \in S : x <= y

\* m occurs in t at 0-based offset i.
Occurs(t, m, i) == /\ i + Len(m) <= Len(t)
                   /\ \A j \in 1..Len(m) : t[i + j] = m[j]

\* str.find: lowest offset of m in t, -1 when there is none.
Find(t, m) ==
    LET hits == {i \in 0..Len(t) : Occurs(t, m, i)}
    IN  IF hits = {} THEN -1 ELSE SetMin(hits)

\* A slice bound: negative counts from the end, then clamped into 0..n.
ClampIndex(i, n) ==
    IF i < 0 THEN (IF i + n < 0 THEN 0 ELSE i + n)
    ELSE IF i > n THEN n ELSE i

\* t[a:b]
Slice(t, a, b) ==
    LET lo == ClampIndex(a, Len(t))
        hi == ClampIndex(b, Len(t))
    IN  IF lo >= hi THEN <<>> ELSE SubSeq(t, lo + 1, hi)

UpperCase == <<"A", "B", "C", "D", "E", "F", "G", "H", "I", "J", "K", "L", "M",
               "N", "O", "P", "Q", "R", "S", "T", "U", "V", "W", "X", "Y", "Z">>

LowerCase == <<"a", "b", "c", "d", "e", "f", "g", "h", "i", "j", "k", "l", "m",
               "n", "o", "p", "q", "r", "s", "t", "u", "v", "w", "x", "y", "z">>

LowerChar(ch) ==
    IF \E i \in DOMAIN UpperCase : UpperCase[i] = ch
    THEN LowerCase[CHOOSE i \in DOMAIN UpperCase : UpperCase[i] = ch]
    ELSE ch

\* str.lower
Lower(s) == [i \in 1..Len(s) |-> LowerChar(s[i])]

\* str.replace for one-character old and new
Replace(s, old, new) == [i \in 1..Len(s) |-> IF s[i] = old THEN new ELSE s[i]]

\* dict as the sequence of its (key, value) items in insertion order
HasKey(d, k) == \E i \in 1..Len(d) : d[i][1] = k

DictGet(d, k) == d[CHOOSE i \in 1..Len(d) : d[i][1] = k][2]

DictSet(d, k, v) ==
    IF HasKey(d, k)
    THEN [i \in 1..Len(d) |-> IF d[i][1] = k THEN <<k, v>> ELSE d[i]]
    ELSE Append(d, <<k, v>>)

----------------------------------------------------------------------------
(* Pieces of run_phase and main.                                           *)

\* Path('logs') / f'{phase_name.lower().replace(" ", "_")}_error.log'
LogFile(phase_name) ==
    <<"l", "o", "g", "s", "/">>
        \o Replace(Lower(phase_name), " ", "_")
        \o <<"_", "e", "r", "r", "o", "r", ".", "l", "o", "g">>

\* traceback.format_exc() inside the except block
FormatExc(e) == <<"Traceback (most recent call last):", e>>

\* What the with-block of the handler leaves in the log file.
LogContent(phase_name, now, e) ==
    [phase |-> phase_name, timestamp |-> now, trace |-> FormatExc(e)]

\* open(log_file, 'w') and the three writes: the file is created or replaced.
WriteLog(fs, phase_name, now, e) ==
    [f \in DOMAIN fs \cup {LogFile(phase_name)} |->
        IF f = LogFile(phase_name) THEN LogContent(phase_name, now, e) ELSE fs[f]]

\* The gate fed with data/raw as it was at startup.
GateFilesAtStartup == startFiles

\* The files the EDA gate looks at: data/raw as it is when line 85 runs.
GateFiles == rawFiles

\* The gate taking any *.csv of data/raw (the test of line 81) for the file.
GateOpenAnyCsv(files) == files # {}

\* Path('data/raw/kepler_cumulative.csv').exists()
GateOpen(files) == Kepler \in files

EdaLabel(present) ==
    IF present THEN "skipped - requires manual review" ELSE "skipped - no data"

\* A log left behind by an earlier run in which Data Scraping failed.
OldLog == (LogFile(DataScraping) :> LogContent(DataScraping, 0, "Exception"))

NoLogs == [f \in {} |-> 0]

TypeOK ==
    /\ pc \in {"start", "init", "load", "extract", "call", "exec", "handler",
               "returned", "gate", "save", "report", "done"}
    /\ raised \in {"none", "OSError", "FileNotFoundError", "SystemExit"}
    /\ source.exists \in BOOLEAN /\ source.text \in Texts
    /\ full_code \in Texts /\ scraper_section \in Texts
    /\ rawFiles \subseteq CsvFiles /\ startFiles \subseteq CsvFiles
    /\ exc \in {"none", "Exception", "SystemExit"}
    /\ ret \in {"none", "True", "False"}
    /\ nWrites \in Nat /\ clock \in Nat

Init ==
    /\ pc = "start"
    /\ raised = "none"
    /\ source \in {[exists |-> FALSE, text |-> <<>>]}
                    \cup {[exists |-> TRUE, text |-> t] : t \in Texts}
    /\ full_code = <<>>
    /\ scraper_section = <<>>
    /\ rawFiles \in SUBSET CsvFiles
    /\ startFiles = rawFiles
    /\ logs \in {NoLogs, OldLog}
    /\ logsAtCall = logs
    /\ calls = <<>>
    /\ exc = "none"
    /\ ret = "none"
    /\ results = [timestamp |-> 0, phases |-> <<>>]
    /\ pipeline_results = <<>>
    /\ nWrites = 0
    /\ clock = 1
    /\ stdout = <<>>

Alive == raised = "none"

\* Lines 53-59: banner, then setup_environment; mkdir may fail.
SetupEnvironment ==
    /\ Alive /\ pc = "start"
    /\ \/ /\ pc' = "init"
          /\ stdout' = stdout \o <<"EXOPLANET DETECTION PIPELINE", "Directory structure created">>
          /\ UNCHANGED raised
       \/ /\ raised' = "OSError"
          /\ stdout' = Append(stdout, "EXOPLANET DETECTION PIPELINE")
          /\ UNCHANGED pc
    /\ UNCHANGED <<source, full_code, scraper_section, rawFiles, startFiles, logs,
                   logsAtCall, calls, exc, ret, results, pipeline_results, nWrites, clock>>

\* Lines 61-64
InitResults ==
    /\ Alive /\ pc = "init"
    /\ results' = [timestamp |-> clock, phases |-> <<>>]
    /\ clock' = clock + 1
    /\ pc' = "load"
    /\ UNCHANGED <<raised, source, full_code, scraper_section, rawFiles, startFiles,
                   logs, logsAtCall, calls, exc, ret, pipeline_results, nWrites, stdout>>

\* A load that takes a missing source file for an empty one.
LoadSource_IgnoresMissing ==
    /\ Alive /\ pc = "load"
    /\ full_code' = source.text
    /\ pc' = "extract"
    /\ UNCHANGED <<raised, source, scraper_section, rawFiles, startFiles, logs,
                   logsAtCall, calls, exc, ret, results, pipeline_results, nWrites,
                   clock, stdout>>

\* Lines 67-68
LoadSource ==
    /\ Alive /\ pc = "load"
    /\ IF source.exists
       THEN /\ full_code' = source.text
            /\ pc' = "extract"
            /\ UNCHANGED raised
       ELSE /\ raised' = "FileNotFoundError"
            /\ UNCHANGED <<pc, full_code>>
    /\ UNCHANGED <<source, scraper_section, rawFiles, startFiles, logs, logsAtCall,
                   calls, exc, ret, results, pipeline_results, nWrites, clock, stdout>>

\* Lines 71-72
ExtractSection ==
    /\ Alive /\ pc = "extract"
    /\ scraper_section' = Slice(full_code, Find(full_code, StartMarker),
                                           Find(full_code, EndMarker))
    /\ pc' = "call"
    /\ UNCHANGED <<raised, source, full_code, rawFiles, startFiles, logs, logsAtCall,
                   calls, exc, ret, results, pipeline_results, nWrites, clock, stdout>>

\* Line 74 calling run_phase, lines 30-32
CallRunPhase ==
    /\ Alive /\ pc = "call"
    /\ calls' = Append(calls, DataScraping)
    /\ logsAtCall' = logs
    /\ stdout' = Append(stdout, "RUNNING")
    /\ pc' = "exec"
    /\ UNCHANGED <<raised, source, full_code, scraper_section, rawFiles, startFiles,
                   logs, exc, ret, results, pipeline_results, nWrites, clock>>

phase_name == calls[Len(calls)]

\* What the body may do to data/raw before it ends; an empty body does nothing.
BodyEffects == IF scraper_section = <<>> THEN {rawFiles} ELSE SUBSET CsvFiles

\* A run_phase that writes the phase's log on success too.
ExecSuccess_WritesLog ==
    /\ Alive /\ pc = "exec"
    /\ \E files \in BodyEffects : rawFiles' = files
    /\ stdout' = Append(stdout, "completed successfully")
    /\ logs' = WriteLog(logs, phase_name, clock, "none")
    /\ clock' = clock + 1
    /\ ret' = "True"
    /\ pc' = "returned"
    /\ UNCHANGED <<raised, source, full_code, scraper_section, startFiles,
                   logsAtCall, calls, exc, results, pipeline_results, nWrites>>

\* Lines 35-37: the body ends without raising.
ExecSuccess ==
    /\ Alive /\ pc = "exec"
    /\ \E files \in BodyEffects : rawFiles' = files
    /\ stdout' = Append(stdout, "completed successfully")
    /\ ret' = "True"
    /\ pc' = "returned"
    /\ UNCHANGED <<raised, source, full_code, scraper_section, startFiles, logs,
                   logsAtCall, calls, exc, results, pipeline_results, nWrites, clock>>

\* Lines 35, 38: the body raises an Exception, which the except clause takes.
ExecRaisesException ==
    /\ Alive /\ pc = "exec"
    /\ scraper_section # <<>>
    /\ \E files \in BodyEffects : rawFiles' = files
    /\ exc' = "Exception"
    /\ pc' = "handler"
    /\ UNCHANGED <<raised, source, full_code, scraper_section, startFiles, logs,
                   logsAtCall, calls, ret, results, pipeline_results, nWrites, clock, stdout>>

\* Lines 35, 38: the body raises SystemExit or KeyboardInterrupt, which are
\* no Exception: the except clause does not match.
ExecRaisesBaseException ==
    /\ Alive /\ pc = "exec"
    /\ scraper_section # <<>>
    /\ \E files \in BodyEffects : rawFiles' = files
    /\ exc' = "SystemExit"
    /\ raised' = "SystemExit"
    /\ UNCHANGED <<pc, source, full_code, scraper_section, startFiles, logs,
                   logsAtCall, calls, ret, results, pipeline_results, nWrites, clock, stdout>>

\* Lines 39-49 with the log written.
HandlerLogs ==
    /\ Alive /\ pc = "handler"
    /\ stdout' = stdout \o <<"failed with error", FormatExc(exc)>>
    /\ logs' = WriteLog(logs, phase_name, clock, exc)
    /\ clock' = clock + 1
    /\ ret' = "False"
    /\ pc' = "returned"
    /\ UNCHANGED <<raised, source, full_code, scraper_section, rawFiles, startFiles,
                   logsAtCall, calls, exc, results, pipeline_results, nWrites>>

\* Lines 39-44 with open(log_file, 'w') failing.
HandlerOpenFails ==
    /\ Alive /\ pc = "handler"
    /\ stdout' = stdout \o <<"failed with error", FormatExc(exc)>>
    /\ raised' = "OSError"
    /\ UNCHANGED <<pc, source, full_code, scraper_section, rawFiles, startFiles, logs,
                   logsAtCall, calls, exc, ret, results, pipeline_results, nWrites, clock>>

\* A driver that calls run_phase a second time after a first failure.
RecordScraping_Retry ==
    /\ Alive /\ pc = "returned"
    /\ IF ret = "True"
       THEN /\ results' = [results EXCEPT !.phases = DictSet(@, "data_scraping", "success")]
            /\ pc' = "gate"
            /\ UNCHANGED stdout
       ELSE IF Len(calls) < 2
       THEN /\ pc' = "call"
            /\ UNCHANGED <<results, stdout>>
       ELSE /\ results' = [results EXCEPT !.phases = DictSet(@, "data_scraping", "failed")]
            /\ pc' = "gate"
            /\ stdout' = Append(stdout, "Data scraping failed, but continuing")
    /\ UNCHANGED <<raised, source, full_code, scraper_section, rawFiles, startFiles,
                   logs, logsAtCall, calls, exc, ret, pipeline_results, nWrites, clock>>

\* Lines 74-78
RecordScraping ==
    /\ Alive /\ pc = "returned"
    /\ IF ret = "True"
       THEN /\ results' = [results EXCEPT !.phases = DictSet(@, "data_scraping", "success")]
            /\ UNCHANGED stdout
       ELSE /\ results' = [results EXCEPT !.phases = DictSet(@, "data_scraping", "failed")]
            /\ stdout' = Append(stdout, "Data scraping failed, but continuing")
    /\ pc' = "gate"
    /\ UNCHANGED <<raised, source, full_code, scraper_section, rawFiles, startFiles,
                   logs, logsAtCall, calls, exc, ret, pipeline_results, nWrites, clock>>

\* Lines 81-91
EdaGate ==
    /\ Alive /\ pc = "gate"
    /\ results' = [results EXCEPT
                     !.phases = DictSet(@, "eda", EdaLabel(GateOpen(GateFiles)))]
    /\ stdout' = stdout
                   \o (IF rawFiles = {} THEN <<"Warning: No raw data found">> ELSE <<>>)
                   \o (IF GateOpen(GateFiles)
                       THEN <<"Raw data found, proceeding with EDA">>
                       ELSE <<"Skipping EDA - no data available">>)
    /\ pc' = "save"
    /\ UNCHANGED <<raised, source, full_code, scraper_section, rawFiles, startFiles,
                   logs, logsAtCall, calls, exc, ret, pipeline_results, nWrites, clock>>

\* Lines 94-95
SaveResults ==
    /\ Alive /\ pc = "save"
    /\ pipeline_results' = <<results>>
    /\ nWrites' = nWrites + 1
    /\ pc' = "report"
    /\ UNCHANGED <<raised, source, full_code, scraper_section, rawFiles, startFiles,
                   logs, logsAtCall, calls, exc, ret, results, clock, stdout>>

\* Lines 97-107
PrintSummary ==
    /\ Alive /\ pc = "report"
    /\ stdout' = stdout \o <<"PIPELINE EXECUTION COMPLETE", "Phase Summary:">>
                        \o [i \in 1..Len(results.phases) |-> results.phases[i]]
    /\ pc' = "done"
    /\ UNCHANGED <<raised, source, full_code, scraper_section, rawFiles, startFiles,
                   logs, logsAtCall, calls, exc, ret, results, pipeline_results,
                   nWrites, clock>>

Next ==
    \/ SetupEnvironment
    \/ InitResults
    \/ LoadSource
    \/ ExtractSection
    \/ CallRunPhase
    \/ ExecSuccess
    \/ ExecRaisesException
    \/ ExecRaisesBaseException
    \/ HandlerLogs
    \/ HandlerOpenFails
    \/ RecordScraping
    \/ EdaGate
    \/ SaveResults
    \/ PrintSummary

Spec == Init /\ [][Next]_vars

----------------------------------------------------------------------------
(* Vocabulary of the properties.                                           *)

BeforeExtract == pc \in {"start", "init", "load", "extract"}

InRunPhase == pc \in {"exec", "handler"}

Terminated == pc = "done" \/ ~Alive

\* Lowest offset >= from at which m occurs in t, -1 when there is none.
FindFrom(t, m, from) ==
    LET hits == {i \in 0..Len(t) : i >= from /\ Occurs(t, m, i)}
    IN  IF hits = {} THEN -1 ELSE SetMin(hits)

\* The start marker occurs and an end marker occurs after it.
MarkersOrdered(t) ==
    /\ Find(t, StartMarker) # -1
    /\ FindFrom(t, EndMarker, Find(t, StartMarker)) # -1

\* From the first start marker up to the next end marker.
DelimitedRegion(t) ==
    SubSeq(t, Find(t, StartMarker) + 1, FindFrom(t, EndMarker, Find(t, StartMarker)))

Keys(d) == [i \in 1..Len(d) |-> d[i][1]]

Status(k) ==
    IF HasKey(results.phases, k)
    THEN CASE DictGet(results.phases, k) = "success" -> "Success"
           [] DictGet(results.phases, k) = "failed" -> "Failed"
           [] OTHER -> "Skipped"
    ELSE IF k = "data_scraping" /\ pc \in {"exec", "handler", "returned"}
         THEN "Running"
         ELSE "Pending"

StatusEdges(k) ==
    IF k = "data_scraping"
    THEN {<<"Pending", "Running">>, <<"Running", "Success">>, <<"Running", "Failed">>}
    ELSE {<<"Pending", "Skipped">>}

SkipLabels == {"skipped - no data", "skipped - requires manual review"}

----------------------------------------------------------------------------
\* C1: no error leaves run_phase: whatever the body raises, and also when
\* writing the failure log fails, run_phase hands main a boolean.
C1_NoErrorEscapesRunPhase == ~(InRunPhase /\ raised # "none")

\* C2: a source text whose start or end marker is missing, or whose end
\* marker does not come after the start marker, yields no body and the run
\* stops at the extraction: run_phase is never called, no phase is recorded.
C2_MalformedSourceAborts ==
    (source.exists /\ ~MarkersOrdered(source.text))
        => /\ BeforeExtract
           /\ scraper_section = <<>>
           /\ calls = <<>>
           /\ results.phases = <<>>

\* C3: when the start marker occurs and an end marker occurs after it, the
\* extracted body runs from the first start marker up to the first end
\* marker after it, also when an end marker occurs before the start marker.
C3_BodyIsDelimitedRegion ==
    (~BeforeExtract /\ MarkersOrdered(full_code))
        => scraper_section = DelimitedRegion(full_code)

\* C4: whenever the body raised, run_phase has returned failure once it is
\* over, the phase's error log then holds the phase name, a timestamp of this
\* run and a non-empty trace, and the summary records data_scraping as failed.
C4_RaisingBodyIsLoggedFailure ==
    (exc # "none" /\ ~(Alive /\ InRunPhase))
        => /\ ret = "False"
           /\ LogFile(DataScraping) \in DOMAIN logs
           /\ logs[LogFile(DataScraping)].phase = DataScraping
           /\ logs[LogFile(DataScraping)].timestamp > results.timestamp
           /\ logs[LogFile(DataScraping)].trace # <<>>
           /\ pc \in {"gate", "save", "report", "done"}
                => DictGet(results.phases, "data_scraping") = "failed"

\* C5: when the body ends without raising, run_phase returns success and the
\* log files are what they were when run_phase was called: none is created,
\* and one left by an earlier failure keeps its content.
C5_SuccessLeavesLogAlone ==
    (calls # <<>> /\ exc = "none" /\ pc # "exec")
        => /\ ret = "True"
           /\ logs = logsAtCall

C5_Witness ==
    /\ ret = "True"
    /\ scraper_section # <<>>
    /\ LogFile(DataScraping) \in DOMAIN logs
    /\ logs[LogFile(DataScraping)].timestamp = 0

\* C6: in a completed run the eda entry is "skipped - no data" when
\* kepler_cumulative.csv is absent and "skipped - requires manual review"
\* when it is present, and run_phase was called for Data Scraping only.
C6_EdaSkippedByPresence ==
    pc = "done"
        => /\ HasKey(results.phases, "eda")
           /\ Kepler \in rawFiles
                => DictGet(results.phases, "eda") = "skipped - requires manual review"
           /\ Kepler \notin rawFiles
                => DictGet(results.phases, "eda") = "skipped - no data"
           /\ \A i \in 1..Len(calls) : calls[i] = DataScraping

C6_Witness ==
    /\ pc = "done"
    /\ rawFiles = {"other.csv"}
    /\ DictGet(results.phases, "eda") = "skipped - no data"
    /\ calls = <<DataScraping>>

\* C7: when copy_of_ada.py cannot be opened the run ends at the load with an
\* empty phase map, no call of run_phase and no pipeline_results.json.
C7_UnreadableSourceStopsRun ==
    ~source.exists
        => /\ pc \in {"start", "init", "load"}
           /\ results.phases = <<>>
           /\ calls = <<>>
           /\ nWrites = 0
           /\ pipeline_results = <<>>

C7_Witness ==
    /\ ~source.exists
    /\ pc = "load"
    /\ raised = "FileNotFoundError"
    /\ results.timestamp > 0

\* C8: once the source has been read, a run that has ended has completed:
\* both phase entries are recorded, pipeline_results.json was written once
\* with them, and the completion banner and the phase summary were printed.
C8_ReadableSourceRunCompletes ==
    /\ nWrites <= 1
    /\ nWrites = 1 => Keys(results.phases) = <<"data_scraping", "eda">>
    /\ (Terminated /\ pc \notin {"start", "init", "load"})
        => /\ pc = "done"
           /\ nWrites = 1
           /\ pipeline_results = <<results>>
           /\ \E i \in 1..Len(stdout) : stdout[i] = "PIPELINE EXECUTION COMPLETE"
           /\ \E i \in 1..Len(stdout) : stdout[i] = "Phase Summary:"

\* C9: a phase's status moves only Pending -> Running -> Success or Failed
\* (Data Scraping) or Pending -> Skipped (EDA) and never changes afterwards,
\* run_phase is called at most once per phase, and the persisted summary
\* holds exactly one data_scraping entry and one eda entry.
C9_StatusInvariant ==
    /\ \A i, j \in 1..Len(calls) : calls[i] = calls[j] => i = j
    /\ \A i, j \in 1..Len(results.phases) :
           results.phases[i][1] = results.phases[j][1] => i = j
    /\ Status("data_scraping") \in {"Success", "Failed"} => ~InRunPhase
    /\ pipeline_results # <<>>
        => /\ Keys(pipeline_results[1].phases) = <<"data_scraping", "eda">>
           /\ DictGet(pipeline_results[1].phases, "data_scraping") \in {"success", "failed"}
           /\ DictGet(pipeline_results[1].phases, "eda") \in SkipLabels

C10_GateReadsStateAfterScraping ==
    (pc \in {"save", "report", "done"})
        => /\ (Kepler \in rawFiles /\ Kepler \notin startFiles)
                => DictGet(results.phases, "eda") = "skipped - requires manual review"
           /\ (Kepler \notin rawFiles /\ Kepler \in startFiles)
                => DictGet(results.phases, "eda") = "skipped - no data"
           /\ \A outcome \in {"success", "failed"} :
                DictGet(results.phases, "data_scraping") = outcome
                    => (DictGet(results.phases, "eda") = "skipped - requires manual review")
                           = (Kepler \in rawFiles)

C10_Witness ==
    /\ pc = "done"
    /\ Kepler \notin startFiles
    /\ Kepler \in rawFiles
    /\ DictGet(results.phases, "data_scraping") = "failed"
    /\ DictGet(results.phases, "eda") = "skipped - requires manual review"

====
